---------------------------- MODULE Spec2Model ----------------------------
(***************************************************************************)
(* Model of src/main.py: the ticker resolver get_stock_data_sync, the      *)
(* /api/evaluate handler and the thread pool the handler dispatches to.    *)
(*                                                                         *)
(* Numbers are exact rationals [n, d] in lowest terms (Python floats are   *)
(* abstracted to the reals they approximate).  A value read from the       *)
(* external info record is tagged: absent key, None, a number or a string. *)
(* Strings that the code takes apart (tickers, symbols) are sequences of   *)
(* one-character strings; industry labels are only compared, so they are   *)
(* atomic strings naming the code points of the source's keys.             *)
(***************************************************************************)
EXTENDS Integers, Sequences, FiniteSets, TLC

VARIABLES
    ticker,          \* evaluate's argument ticker (sequence of characters)
    industry,        \* evaluate's argument industry
    pc,              \* position of the request: "start", "loop", "build", "returned", "done"
    search_tickers,  \* get_stock_data_sync: candidate symbols
    idx,             \* get_stock_data_sync: position of the for loop (1-based)
    info,            \* get_stock_data_sync: accepted record, or None
    final_ticker,    \* get_stock_data_sync: accepted candidate, or ""
    calls,           \* calls made to the external source: <<[t, outcome]>>
    data,            \* evaluate: what get_stock_data_sync returned
    locals,          \* evaluate: wacc_val, v_pe, v_ev, v_dcf, v_analyst, final_target
    response,        \* what the endpoint answered
    phase,           \* pool: each request's position
    queue,           \* pool: the executor's FIFO work queue
    hang             \* pool: requests whose external call never returns

vars == <<ticker, industry, pc, search_tickers, idx, info, final_ticker, calls,
          data, locals, response, phase, queue, hang>>

resolverVars == <<ticker, industry, pc, search_tickers, idx, info, final_ticker,
                  calls, data, locals, response>>

poolVars == <<phase, queue, hang>>

-----------------------------------------------------------------------------
(* Bounds of the model *)

MaxTickerLen == 2

NumRequests == 6

MaxHanging == 1

-----------------------------------------------------------------------------
(* Exact rational arithmetic standing for Python's float arithmetic *)

Abs(x) == IF x < 0 THEN -x ELSE x

RECURSIVE GCD(_, _)
GCD(a, b) == IF b = 0 THEN a ELSE GCD(b, a % b)

\* the rational n/d (d # 0) in lowest terms with a positive denominator
Rat(n, d) ==
    LET g == GCD(Abs(n), Abs(d))
        s == IF d < 0 THEN -1 ELSE 1
    IN  [n |-> (s * n) \div g, d |-> (s * d) \div g]

RatInt(i) == [n |-> i, d |-> 1]

RatAdd(p, q) == Rat(p.n * q.d + q.n * p.d, p.d * q.d)

RatSub(p, q) == Rat(p.n * q.d - q.n * p.d, p.d * q.d)

RatMul(p, q) == Rat(p.n * q.n, p.d * q.d)

\* p / q, q # 0
RatDiv(p, q) == Rat(p.n * q.d, p.d * q.n)

RatLt(p, q) == p.n * q.d < q.n * p.d

RatLe(p, q) == p.n * q.d <= q.n * p.d

RatPos(p) == p.n > 0

\* Python max(p, q): the first argument unless the second is greater
RatMax(p, q) == IF RatLt(p, q) THEN q ELSE p

\* Python round(x, 2): the nearest multiple of 1/100, ties to the even one
Round2(p) ==
    LET n == p.n * 100
        f == n \div p.d
        r == n - f * p.d
        up == \/ 2 * r > p.d
              \/ (2 * r = p.d /\ f % 2 = 1)
    IN  Rat(IF up THEN f + 1 ELSE f, 100)

-----------------------------------------------------------------------------
(* Strings as sequences of characters: str.strip, str.upper, str.isdigit *)

Chars == {" ", "2", "a"}

Digits == {"0", "1", "2", "3", "4", "5", "6", "7", "8", "9"}

Whitespace == {" "}

RECURSIVE LStrip(_)
LStrip(s) ==
    IF s # <<>> /\ Head(s) \in Whitespace THEN LStrip(Tail(s)) ELSE s

RECURSIVE RStrip(_)
RStrip(s) ==
    IF s # <<>> /\ s[Len(s)] \in Whitespace
    THEN RStrip(SubSeq(s, 1, Len(s) - 1))
    ELSE s

\* str.strip()
Strip(s) == RStrip(LStrip(s))

UpperChar(c) == IF c = "a" THEN "A" ELSE c

\* str.upper()
Upper(s) == [i \in 1..Len(s) |-> UpperChar(s[i])]

\* str.isdigit(): non-empty and every character a digit
IsDigit(s) == s # <<>> /\ \A i \in 1..Len(s) : s[i] \in Digits

RECURSIVE SeqsUpTo(_)
SeqsUpTo(n) ==
    IF n = 0 THEN {<<>>}
    ELSE LET shorter == SeqsUpTo(n - 1)
         IN  shorter \cup {Append(s, c) : s \in {x \in shorter : Len(x) = n - 1}, c \in Chars}

\* the ticker strings a request may carry
Tickers == SeqsUpTo(MaxTickerLen)

SuffixTW == <<".", "T", "W">>

SuffixTWO == <<".", "T", "W", "O">>

\* lines 18-23: the candidate symbols of a normalized ticker
SearchTickers(raw_ticker) ==
    IF IsDigit(raw_ticker)
    THEN <<raw_ticker \o SuffixTW, raw_ticker \o SuffixTWO>>
    ELSE <<raw_ticker>>

-----------------------------------------------------------------------------
(* Values of the external info record and of the snapshot dict *)

Absent == [k |-> "absent"]                 \* the key is not in the dict

None == [k |-> "null"]                     \* Python None

Num(q) == [k |-> "num", n |-> q.n, d |-> q.d]

Str(s) == [k |-> "str", s |-> s]

IsNum(v) == v.k = "num"

\* the rational of a numeric value
Q(v) == [n |-> v.n, d |-> v.d]

\* bool(v) for a value read from a dict
Truthy(v) ==
    \/ v.k = "num" /\ v.n # 0
    \/ v.k = "str" /\ v.s # <<>>

\* a or b
Or(a, b) == IF Truthy(a) THEN a ELSE b

\* key in d
HasKey(d, key) == d[key] # Absent

\* d.get(key, default)
Get(d, key, default) == IF HasKey(d, key) THEN d[key] ELSE default

Fields == {"symbol", "shortName", "currentPrice", "regularMarketPrice", "forwardEps",
           "trailingEps", "targetMeanPrice", "beta", "ebitda", "totalDebt", "totalCash",
           "sharesOutstanding", "currency"}

EmptyRecord == [f \in Fields |-> Absent]

\* bool(d) for a dict: it has a key
NonEmpty(d) == \E f \in Fields : HasKey(d, f)

TWD == <<"T", "W", "D">>

USD == <<"U", "S", "D">>

-----------------------------------------------------------------------------
(* get_stock_data_sync, lines 34 and 44-56 *)

\* mutant of Accepts: the regularMarketPrice fallback is forgotten
AcceptsCurrentOnly(temp_info) ==
    /\ temp_info # None
    /\ NonEmpty(temp_info)
    /\ HasKey(temp_info, "currentPrice")

\* line 34: temp_info and ('currentPrice' in temp_info or 'regularMarketPrice' in temp_info)
Accepts(temp_info) ==
    /\ temp_info # None
    /\ NonEmpty(temp_info)
    /\ (HasKey(temp_info, "currentPrice") \/ HasKey(temp_info, "regularMarketPrice"))

\* line 45: info.get("symbol", final_ticker).upper() raises unless the value is a string
SymbolRaises(rec, t) == Get(rec, "symbol", Str(t)).k # "str"

\* lines 44-56: the dict get_stock_data_sync returns for the accepted record
Snapshot(rec, t) ==
    [symbol        |-> Str(Upper(Get(rec, "symbol", Str(t)).s)),
     name          |-> Get(rec, "shortName", Str(<<>>)),
     current_price |-> Or(Get(rec, "currentPrice", None),
                          Get(rec, "regularMarketPrice", Num(RatInt(0)))),
     future_eps    |-> Or(Get(rec, "forwardEps", None),
                          Get(rec, "trailingEps", Num(RatInt(0)))),
     target_mean   |-> Get(rec, "targetMeanPrice", Num(RatInt(0))),
     beta          |-> Get(rec, "beta", Num(RatInt(1))),
     ebitda        |-> Get(rec, "ebitda", Num(RatInt(0))),
     total_debt    |-> Get(rec, "totalDebt", Num(RatInt(0))),
     total_cash    |-> Get(rec, "totalCash", Num(RatInt(0))),
     shares        |-> Get(rec, "sharesOutstanding", Num(RatInt(1))),
     currency      |-> Get(rec, "currency", Str(USD))]

-----------------------------------------------------------------------------
(* evaluate, lines 66-119 *)

\* the keys of ind_map (lines 74-79), by their code points
KeyTech == "U+79D1 U+6280"         \* '科技'

KeyMedical == "U+91AB U+7642"      \* '醫療'

KeyFinance == "U+91D1 U+878D"      \* '金融'

KeyEnergy == "U+80FD U+6E90"       \* '能源'

KeyConsumer == "U+6D88 U+8CBB"     \* '消費'

KeyIndustrial == "U+5DE5 U+696D"   \* '工業'

IndustryKeys == {KeyTech, KeyMedical, KeyFinance, KeyEnergy, KeyConsumer, KeyIndustrial}

\* labels a request may carry: the keys and two strings that are not keys
Labels == IndustryKeys \cup {"financial", "technology"}

\* line 66: not data or data["current_price"] == 0
NotFound(d) == IF d = None THEN TRUE ELSE d.current_price = Num(RatInt(0))

\* line 70
IsTw(d) == d.currency = Str(TWD)

\* mutant of IndMap: the two market variants are swapped
IndMapSwapped(is_tw) ==
    (KeyTech       :> [pe |-> IF is_tw THEN 25 ELSE 18, growth |-> Rat(4, 100)]) @@
    (KeyMedical    :> [pe |-> IF is_tw THEN 22 ELSE 20, growth |-> Rat(3, 100)]) @@
    (KeyFinance    :> [pe |-> IF is_tw THEN 12 ELSE 10, growth |-> Rat(2, 100)]) @@
    (KeyEnergy     :> [pe |-> IF is_tw THEN 10 ELSE 8,  growth |-> Rat(2, 100)]) @@
    (KeyConsumer   :> [pe |-> IF is_tw THEN 18 ELSE 15, growth |-> Rat(3, 100)]) @@
    (KeyIndustrial :> [pe |-> IF is_tw THEN 15 ELSE 12, growth |-> Rat(25, 1000)])

\* lines 73-80
IndMap(is_tw) ==
    (KeyTech       :> [pe |-> IF ~is_tw THEN 25 ELSE 18, growth |-> Rat(4, 100)]) @@
    (KeyMedical    :> [pe |-> IF ~is_tw THEN 22 ELSE 20, growth |-> Rat(3, 100)]) @@
    (KeyFinance    :> [pe |-> IF ~is_tw THEN 12 ELSE 10, growth |-> Rat(2, 100)]) @@
    (KeyEnergy     :> [pe |-> IF ~is_tw THEN 10 ELSE 8,  growth |-> Rat(2, 100)]) @@
    (KeyConsumer   :> [pe |-> IF ~is_tw THEN 18 ELSE 15, growth |-> Rat(3, 100)]) @@
    (KeyIndustrial :> [pe |-> IF ~is_tw THEN 15 ELSE 12, growth |-> Rat(25, 1000)])

\* mutant of Ind: the default is the first profile after technology
IndDefaultsToMedical(label, is_tw) ==
    LET ind_map == IndMap(is_tw)
    IN  IF label \in DOMAIN ind_map THEN ind_map[label] ELSE ind_map[KeyMedical]

\* line 81: ind_map.get(industry, ind_map['科技'])
Ind(label, is_tw) ==
    LET ind_map == IndMap(is_tw)
    IN  IF label \in DOMAIN ind_map THEN ind_map[label] ELSE ind_map[KeyTech]

\* line 84
Rf(is_tw) == IF is_tw THEN Rat(15, 1000) ELSE Rat(42, 1000)

\* mutant of WaccVal: the 0.05 floor is missing
WaccValNoFloor(d) == RatAdd(Rf(IsTw(d)), RatMul(Q(d.beta), Rat(55, 1000)))

\* line 85
WaccVal(d) ==
    RatMax(RatAdd(Rf(IsTw(d)), RatMul(Q(d.beta), Rat(55, 1000))), Rat(5, 100))

\* line 89
VPe(d, ind) ==
    IF RatPos(Q(d.future_eps)) THEN RatMul(Q(d.future_eps), RatInt(ind.pe)) ELSE RatInt(0)

\* lines 92-95
VEv(d) ==
    IF RatPos(Q(d.ebitda)) /\ RatPos(Q(d.shares))
    THEN RatDiv(RatAdd(RatSub(RatMul(Q(d.ebitda), RatInt(12)), Q(d.total_debt)),
                       Q(d.total_cash)),
                Q(d.shares))
    ELSE RatInt(0)

\* mutant of DcfDivisor: the 0.015 floor is missing
DcfDivisorNoFloor(wacc_val, ind) == RatSub(wacc_val, ind.growth)

\* line 98: max(wacc_val - ind['growth'], 0.015)
DcfDivisor(wacc_val, ind) == RatMax(RatSub(wacc_val, ind.growth), Rat(15, 1000))

\* line 98
VDcf(d, ind, wacc_val) ==
    IF RatPos(Q(d.future_eps))
    THEN RatDiv(RatMul(Q(d.future_eps), RatAdd(RatInt(1), ind.growth)),
                DcfDivisor(wacc_val, ind))
    ELSE RatInt(0)

\* mutant of ValidVals: v >= 0 in place of v > 0
ValidValsNonNegative(vs) == SelectSeq(vs, LAMBDA v : v.n >= 0)

\* line 104: [v for v in [v_pe, v_ev, v_dcf, v_analyst] if v > 0]
ValidVals(vs) == SelectSeq(vs, RatPos)

RECURSIVE RatSum(_)
RatSum(vs) == IF vs = <<>> THEN RatInt(0) ELSE RatAdd(Head(vs), RatSum(Tail(vs)))

\* line 105 (data["current_price"] may be None: evaluate has only tested it against 0)
FinalTarget(d, valid_vals) ==
    IF valid_vals # <<>>
    THEN Num(RatDiv(RatSum(valid_vals), RatInt(Len(valid_vals))))
    ELSE d.current_price

\* lines 84-105 raise a TypeError when a value they calculate with is None
ComputeRaises(d) ==
    \/ ~IsNum(d.beta)
    \/ ~IsNum(d.future_eps)
    \/ ~IsNum(d.ebitda)
    \/ RatPos(Q(d.ebitda)) /\ ~IsNum(d.shares)
    \/ RatPos(Q(d.ebitda)) /\ RatPos(Q(d.shares))
         /\ (~IsNum(d.total_debt) \/ ~IsNum(d.total_cash))
    \/ ~IsNum(d.target_mean)

\* lines 81-105: the local variables of evaluate
Locals(d, label) ==
    LET ind == Ind(label, IsTw(d))
        wacc_val == WaccVal(d)
        v_pe == VPe(d, ind)
        v_ev == VEv(d)
        v_dcf == VDcf(d, ind, wacc_val)
        v_analyst == Q(d.target_mean)
        valid_vals == ValidVals(<<v_pe, v_ev, v_dcf, v_analyst>>)
    IN  [computed |-> TRUE, ind |-> ind, wacc_val |-> wacc_val, v_pe |-> v_pe,
         v_ev |-> v_ev, v_dcf |-> v_dcf, v_analyst |-> v_analyst,
         valid_vals |-> valid_vals, final_target |-> FinalTarget(d, valid_vals)]

NoLocals == [computed |-> FALSE]

\* lines 110-111: round(None, 2) raises a TypeError
ReturnRaises(d, l) == ~IsNum(d.current_price) \/ ~IsNum(l.final_target)

\* lines 107-119 (wacc: the number the string f"{...}%" shows)
Body(d, l) ==
    [symbol         |-> d.symbol,
     name           |-> d.name,
     current_price  |-> Round2(Q(d.current_price)),
     target         |-> Round2(Q(l.final_target)),
     analyst_target |-> Round2(l.v_analyst),
     pe             |-> Round2(l.v_pe),
     ev             |-> Round2(l.v_ev),
     dcf            |-> Round2(l.v_dcf),
     wacc           |-> Round2(RatMul(l.wacc_val, RatInt(100))),
     currency       |-> IF IsTw(d) THEN "NT$" ELSE "$",
     data_source    |-> "Yahoo Finance (Global)"]

-----------------------------------------------------------------------------
(* The external source: what yf.Ticker(t).info may return for a candidate t *)

CurrentPrices == {Absent, None, Num(RatInt(0)), Num(RatInt(100)), Num(RatInt(-5))}

RegularPrices == {Absent, None, Num(RatInt(50))}

\* the record's own symbol: missing, null, the queried symbol, or another one
Symbols(t) == {Absent, None, Str(t), Str(<<"a">>)}

\* the fields other than the prices and the symbol: none, a full set, a null EPS
Fundamentals ==
    { EmptyRecord,
      [EmptyRecord EXCEPT !["shortName"] = Str(<<"n">>),
                          !["forwardEps"] = Num(RatInt(10)),
                          !["trailingEps"] = Num(RatInt(4)),
                          !["targetMeanPrice"] = Num(RatInt(120)),
                          !["beta"] = Num(Rat(12, 10)),
                          !["ebitda"] = Num(RatInt(1000)),
                          !["totalDebt"] = Num(RatInt(500)),
                          !["totalCash"] = Num(RatInt(300)),
                          !["sharesOutstanding"] = Num(RatInt(7)),
                          !["currency"] = Str(TWD)],
      [EmptyRecord EXCEPT !["trailingEps"] = None] }

InfoRecords(t) ==
    { [f EXCEPT !["currentPrice"] = cp, !["regularMarketPrice"] = rmp, !["symbol"] = sym] :
        f \in Fundamentals, cp \in CurrentPrices, rmp \in RegularPrices, sym \in Symbols(t) }

\* what the record says, as the call log keeps it: it carries one of the two price keys
Priced(temp_info) ==
    /\ temp_info # None
    /\ (temp_info["currentPrice"].k # "absent" \/ temp_info["regularMarketPrice"].k # "absent")

-----------------------------------------------------------------------------
(* One request: evaluate awaiting get_stock_data_sync, then valuing *)

Requests == 1..NumRequests

InitPool ==
    /\ phase = [r \in Requests |-> "new"]
    /\ queue = <<>>
    /\ hang = {}

Init ==
    /\ ticker \in Tickers
    /\ industry \in Labels
    /\ pc = "start"
    /\ search_tickers = <<>>
    /\ idx = 0
    /\ info = None
    /\ final_ticker = <<>>
    /\ calls = <<>>
    /\ data = None
    /\ locals = NoLocals
    /\ response = [status |-> 0]
    /\ InitPool

\* lines 63-64 and 14-26: dispatch, normalize the ticker, list the candidates
Dispatch ==
    /\ pc = "start"
    /\ search_tickers' = SearchTickers(Upper(Strip(ticker)))
    /\ idx' = 1
    /\ info' = None
    /\ final_ticker' = <<>>
    /\ pc' = "loop"
    /\ UNCHANGED <<ticker, industry, calls, data, locals, response, poolVars>>

InLoop == pc = "loop" /\ idx \in 1..Len(search_tickers)

\* line 30 raises: it is outside the inner try, so lines 57-59 return None
TickerRaises ==
    /\ InLoop
    /\ calls' = Append(calls, [t |-> search_tickers[idx], out |-> "ticker_raised",
                               priced |-> FALSE])
    /\ data' = None
    /\ pc' = "returned"
    /\ UNCHANGED <<ticker, industry, search_tickers, idx, info, final_ticker, locals,
                   response, poolVars>>

\* line 32 raises: lines 38-39 continue with the next candidate
InfoRaises ==
    /\ InLoop
    /\ calls' = Append(calls, [t |-> search_tickers[idx], out |-> "info_raised",
                               priced |-> FALSE])
    /\ idx' = idx + 1
    /\ UNCHANGED <<ticker, industry, pc, search_tickers, info, final_ticker, data,
                   locals, response, poolVars>>

\* lines 32-34: the record fails the test of line 34, the loop goes on
InfoMiss ==
    /\ InLoop
    /\ \E temp_info \in {None} \cup InfoRecords(search_tickers[idx]) :
        /\ ~Accepts(temp_info)
        /\ calls' = Append(calls, [t |-> search_tickers[idx], out |-> "returned",
                                   priced |-> Priced(temp_info)])
    /\ idx' = idx + 1
    /\ UNCHANGED <<ticker, industry, pc, search_tickers, info, final_ticker, data,
                   locals, response, poolVars>>

\* lines 32-37: the record passes the test of line 34, break
InfoAccept ==
    /\ InLoop
    /\ \E temp_info \in InfoRecords(search_tickers[idx]) :
        /\ Accepts(temp_info)
        /\ info' = temp_info
        /\ calls' = Append(calls, [t |-> search_tickers[idx], out |-> "returned",
                                   priced |-> Priced(temp_info)])
    /\ final_ticker' = search_tickers[idx]
    /\ pc' = "build"
    /\ UNCHANGED <<ticker, industry, search_tickers, idx, data, locals, response, poolVars>>

\* line 29: the candidates are exhausted
LoopEnd ==
    /\ pc = "loop"
    /\ idx > Len(search_tickers)
    /\ pc' = "build"
    /\ UNCHANGED <<ticker, industry, search_tickers, idx, info, final_ticker, calls, data,
                   locals, response, poolVars>>

\* lines 41-42: if not info: return None
ReturnNone ==
    /\ pc = "build"
    /\ info = None
    /\ data' = None
    /\ pc' = "returned"
    /\ UNCHANGED <<ticker, industry, search_tickers, idx, info, final_ticker, calls,
                   locals, response, poolVars>>

\* line 45 raises, lines 57-59 return None
BuildRaises ==
    /\ pc = "build"
    /\ info # None
    /\ SymbolRaises(info, final_ticker)
    /\ data' = None
    /\ pc' = "returned"
    /\ UNCHANGED <<ticker, industry, search_tickers, idx, info, final_ticker, calls,
                   locals, response, poolVars>>

\* lines 44-56
ReturnSnapshot ==
    /\ pc = "build"
    /\ info # None
    /\ ~SymbolRaises(info, final_ticker)
    /\ data' = Snapshot(info, final_ticker)
    /\ pc' = "returned"
    /\ UNCHANGED <<ticker, industry, search_tickers, idx, info, final_ticker, calls,
                   locals, response, poolVars>>

\* lines 66-67
Respond404 ==
    /\ pc = "returned"
    /\ NotFound(data)
    /\ response' = [status |-> 404]
    /\ pc' = "done"
    /\ UNCHANGED <<ticker, industry, search_tickers, idx, info, final_ticker, calls, data,
                   locals, poolVars>>

\* lines 84-105 raise: the request ends in an unhandled TypeError (a 500)
ComputeFails ==
    /\ pc = "returned"
    /\ ~NotFound(data)
    /\ ComputeRaises(data)
    /\ response' = [status |-> 500]
    /\ pc' = "done"
    /\ UNCHANGED <<ticker, industry, search_tickers, idx, info, final_ticker, calls, data,
                   locals, poolVars>>

\* lines 84-105 run, lines 110-111 raise on a None price (a 500)
ReturnFails ==
    /\ pc = "returned"
    /\ ~NotFound(data)
    /\ ~ComputeRaises(data)
    /\ locals' = Locals(data, industry)
    /\ ReturnRaises(data, locals')
    /\ response' = [status |-> 500]
    /\ pc' = "done"
    /\ UNCHANGED <<ticker, industry, search_tickers, idx, info, final_ticker, calls, data,
                   poolVars>>

\* lines 69-119
Respond200 ==
    /\ pc = "returned"
    /\ ~NotFound(data)
    /\ ~ComputeRaises(data)
    /\ locals' = Locals(data, industry)
    /\ ~ReturnRaises(data, locals')
    /\ response' = [status |-> 200, body |-> Body(data, locals')]
    /\ pc' = "done"
    /\ UNCHANGED <<ticker, industry, search_tickers, idx, info, final_ticker, calls, data,
                   poolVars>>

Respond == Respond404 \/ ComputeFails \/ ReturnFails \/ Respond200

Next ==
    \/ Dispatch
    \/ TickerRaises
    \/ InfoRaises
    \/ InfoMiss
    \/ InfoAccept
    \/ LoopEnd
    \/ ReturnNone
    \/ BuildRaises
    \/ ReturnSnapshot
    \/ Respond

Spec == Init /\ [][Next]_vars

-----------------------------------------------------------------------------
(* evaluate alone: the request resumes with the snapshot of an accepted record *)

EvalRecords ==
    { [EmptyRecord EXCEPT !["currentPrice"] = cp, !["regularMarketPrice"] = rmp,
                          !["forwardEps"] = fe, !["trailingEps"] = te,
                          !["targetMeanPrice"] = tm, !["beta"] = b, !["ebitda"] = e,
                          !["totalDebt"] = td, !["totalCash"] = tc,
                          !["sharesOutstanding"] = sh, !["currency"] = cur] :
        cp \in {Num(RatInt(100)), Num(RatInt(0))},
        rmp \in {Absent, None},
        fe \in {Absent, Num(RatInt(10)), Num(RatInt(-3))},
        te \in {Absent, None},
        tm \in {Absent, Num(RatInt(120))},
        b \in {Absent, Num(RatInt(-10)), Num(RatInt(2)), Num(Rat(1, 2))},
        e \in {Absent, Num(RatInt(1000))},
        td \in {Absent, Num(RatInt(20000))},
        tc \in {Absent, Num(RatInt(300))},
        sh \in {Absent, Num(RatInt(0)), Num(RatInt(7))},
        cur \in {Absent, Str(TWD)} }

InitEval ==
    /\ ticker = <<"a">>
    /\ industry \in Labels
    /\ pc = "returned"
    /\ search_tickers = <<<<"A">>>>
    /\ idx = 1
    /\ info \in EvalRecords
    /\ final_ticker = <<"A">>
    /\ calls = <<[t |-> <<"A">>, out |-> "returned", priced |-> TRUE]>>
    /\ data = Snapshot(info, final_ticker)
    /\ locals = NoLocals
    /\ response = [status |-> 0]
    /\ InitPool

NextEval == Respond

SpecEval == InitEval /\ [][NextEval]_vars

-----------------------------------------------------------------------------
(* The executor of line 10 under concurrent requests (line 64) *)

MaxWorkers == 5

running == {r \in Requests : phase[r] = "running"}

InitRequests ==
    /\ ticker = <<"a">>
    /\ industry = KeyTech
    /\ pc = "start"
    /\ search_tickers = <<>>
    /\ idx = 0
    /\ info = None
    /\ final_ticker = <<>>
    /\ calls = <<>>
    /\ data = None
    /\ locals = NoLocals
    /\ response = [status |-> 0]
    /\ phase = [r \in Requests |-> "new"]
    /\ queue = <<>>
    /\ hang \in {h \in SUBSET Requests : Cardinality(h) <= MaxHanging}

\* line 64: run_in_executor submits get_stock_data_sync; the coroutine awaits
\* (requests are numbered in the order they arrive)
Submit(r) ==
    /\ phase[r] = "new"
    /\ \A q \in Requests : q < r => phase[q] # "new"
    /\ phase' = [phase EXCEPT ![r] = "queued"]
    /\ queue' = Append(queue, r)
    /\ UNCHANGED <<hang, resolverVars>>

\* mutant of StartTask: the pool has no ceiling
StartTaskUnbounded ==
    /\ queue # <<>>
    /\ phase' = [phase EXCEPT ![Head(queue)] = "running"]
    /\ queue' = Tail(queue)
    /\ UNCHANGED <<hang, resolverVars>>

\* line 10: a worker takes the oldest work item while fewer than max_workers run
StartTask ==
    /\ queue # <<>>
    /\ Cardinality(running) < MaxWorkers
    /\ phase' = [phase EXCEPT ![Head(queue)] = "running"]
    /\ queue' = Tail(queue)
    /\ UNCHANGED <<hang, resolverVars>>

\* get_stock_data_sync returns (never, when the external call hangs)
FinishTask(r) ==
    /\ phase[r] = "running"
    /\ r \notin hang
    /\ phase' = [phase EXCEPT ![r] = "finished"]
    /\ UNCHANGED <<queue, hang, resolverVars>>

\* line 64 onwards: the await completes, evaluate goes on to the valuation
Resume(r) ==
    /\ phase[r] = "finished"
    /\ phase' = [phase EXCEPT ![r] = "responded"]
    /\ UNCHANGED <<queue, hang, resolverVars>>

NextRequests ==
    \/ \E r \in Requests : Submit(r)
    \/ StartTask
    \/ \E r \in Requests : FinishTask(r)
    \/ \E r \in Requests : Resume(r)

\* worker threads run, a call that does not hang returns, the event loop resumes
FairRequests ==
    /\ WF_vars(StartTask)
    /\ \A r \in Requests : WF_vars(FinishTask(r))
    /\ \A r \in Requests : WF_vars(Resume(r))

SpecRequests == InitRequests /\ [][NextRequests]_vars /\ FairRequests

-----------------------------------------------------------------------------
(* Claims about evaluate, checked under SpecEval *)

Done200 == pc = "done" /\ response.status = 200

\* v if v > 0, else 0
PosPart(v) == IF v.n > 0 THEN v ELSE RatInt(0)

\* C1: for every successful evaluate call the target before rounding is the
\* arithmetic mean of exactly those of v_pe, v_ev, v_dcf, v_analyst that are
\* strictly greater than 0, and is the snapshot's current price when none is
\* (in particular when futureEps <= 0, ebitda or shares is not positive and
\* targetMeanPrice is 0).
C1_BlendIsMeanOfPositives ==
    Done200 =>
        LET vs == <<locals.v_pe, locals.v_ev, locals.v_dcf, locals.v_analyst>>
            count == Cardinality({i \in 1..4 : vs[i].n > 0})
            total == RatAdd(RatAdd(PosPart(vs[1]), PosPart(vs[2])),
                            RatAdd(PosPart(vs[3]), PosPart(vs[4])))
            no_model == /\ data.future_eps.n <= 0
                        /\ (data.ebitda.n <= 0 \/ data.shares.n <= 0)
                        /\ data.target_mean.n = 0
        IN  /\ count > 0 =>
                /\ IsNum(locals.final_target)
                /\ RatMul(Q(locals.final_target), RatInt(count)) = total
            /\ count = 0 => locals.final_target = data.current_price
            /\ no_model => locals.final_target = data.current_price
            /\ response.body.target = Round2(Q(locals.final_target))

\* C1 witness: a successful call whose EV estimate is negative and left out
\* of the mean of the other estimates
C1_Witness ==
    /\ Done200
    /\ locals.v_ev.n < 0
    /\ locals.v_pe.n > 0
    /\ locals.v_analyst.n > 0
    /\ RatLt(Q(locals.final_target), locals.v_dcf)

\* C6: the WACC evaluate computes is >= 0.05 whatever the beta and the market
\* branch, and is exactly 0.05 whenever rf + beta * 0.055 <= 0.05
\* (rf = 0.015 for TWD, 0.042 otherwise).
C6_WaccFloor ==
    locals.computed =>
        LET rf1000 == IF data.currency = Str(TWD) THEN 15 ELSE 42
            \* rf + beta * 0.055 <= 0.05, in thousandths over beta's denominator
            raw_le_floor == rf1000 * data.beta.d + 55 * data.beta.n <= 50 * data.beta.d
        IN  /\ 20 * locals.wacc_val.n >= locals.wacc_val.d
            /\ raw_le_floor => locals.wacc_val = [n |-> 1, d |-> 20]
            /\ ~raw_le_floor =>
                   locals.wacc_val.n * 1000 * data.beta.d
                     = (rf1000 * data.beta.d + 55 * data.beta.n) * locals.wacc_val.d

\* C6 witness: beta = -10 on the foreign branch (rf = 0.042), WACC is 0.05
C6_Witness ==
    /\ Done200
    /\ data.beta = Num(RatInt(-10))
    /\ data.currency # Str(TWD)
    /\ locals.wacc_val = [n |-> 1, d |-> 20]

FlooredDifference(w, g) ==
    IF RatLt(RatSub(w, g), Rat(15, 1000)) THEN Rat(15, 1000) ELSE RatSub(w, g)

\* C10: the divisor of the DCF estimate is max(wacc - growth, 0.015), never
\* below 0.015; so v_dcf is strictly positive and at most
\* futureEps * (1 + growth) / 0.015 when futureEps > 0, and 0 when futureEps <= 0.
C10_DcfDivisorFloor ==
    locals.computed =>
        LET eps == Q(data.future_eps)
            g == locals.ind.growth
            cash == RatMul(eps, RatAdd(RatInt(1), g))
        IN  /\ RatLe(Rat(15, 1000), DcfDivisor(locals.wacc_val, locals.ind))
            /\ eps.n > 0 =>
                /\ RatMul(locals.v_dcf, FlooredDifference(locals.wacc_val, g)) = cash
                /\ locals.v_dcf.n > 0
                /\ RatLe(locals.v_dcf, RatDiv(cash, Rat(15, 1000)))
            /\ eps.n <= 0 => locals.v_dcf = RatInt(0)

\* C10 witness: futureEps > 0 and wacc - growth < 0.015, the floor divides
C10_Witness ==
    /\ Done200
    /\ data.future_eps.n > 0
    /\ RatLt(RatSub(locals.wacc_val, locals.ind.growth), Rat(15, 1000))
    /\ locals.v_dcf = RatDiv(RatMul(Q(data.future_eps), RatAdd(RatInt(1), locals.ind.growth)),
                             Rat(15, 1000))

\* the snapshot of the example: TWD, futureEps 10, beta 1.0, ebitda 0,
\* targetMeanPrice 0, currentPrice 100
ExampleSnapshot ==
    /\ data # None
    /\ data.currency = Str(TWD)
    /\ data.future_eps = Num(RatInt(10))
    /\ data.beta = Num(RatInt(1))
    /\ data.ebitda = Num(RatInt(0))
    /\ data.target_mean = Num(RatInt(0))
    /\ data.current_price = Num(RatInt(100))

ExampleResult ==
    /\ response.status = 200
    /\ locals.ind.pe = 10
    /\ locals.ind.growth = Rat(2, 100)
    /\ locals.wacc_val = Rat(7, 100)
    /\ locals.v_pe = RatInt(100)
    /\ locals.v_dcf = RatInt(204)
    /\ locals.v_ev = RatInt(0)
    /\ locals.v_analyst = RatInt(0)
    /\ response.body.target = RatInt(152)

C8_UnknownLabelIsTechnology ==
    (locals.computed /\ industry \notin IndustryKeys) =>
        /\ locals.ind.pe = (IF data.currency = Str(TWD) THEN 18 ELSE 25)
        /\ locals.ind.growth = [n |-> 1, d |-> 25]
        /\ locals = Locals(data, KeyTech)
        /\ response.status = 200 => response.body = Body(data, Locals(data, KeyTech))

\* C8 witness: a successful call with the unrecognized label "financial"
\* whose P/E estimate is 10 * 18
C8_Witness ==
    /\ Done200
    /\ industry = "financial"
    /\ data.currency = Str(TWD)
    /\ locals.v_pe = RatInt(180)

-----------------------------------------------------------------------------
(* Claims about get_stock_data_sync and the endpoint, checked under Spec *)

\* the normalized ticker of the request
raw_ticker == Upper(Strip(ticker))

AllDigit == raw_ticker # <<>> /\ \A i \in 1..Len(raw_ticker) : raw_ticker[i] \in Digits

\* get_stock_data_sync has returned
Returned == pc \in {"returned", "done"}

\* C2: for an all-digit ticker the candidates are queried in the order
\* <ticker>.TW, <ticker>.TWO; the first candidate in that order whose record
\* carries currentPrice or regularMarketPrice is accepted, and no candidate is
\* queried after it.
C2_OrderAndFirstUsable ==
    AllDigit =>
        /\ Len(calls) <= 2
        /\ \A i \in 1..Len(calls) :
            /\ calls[i].t = raw_ticker \o (IF i = 1 THEN <<".", "T", "W">>
                                                   ELSE <<".", "T", "W", "O">>)
            /\ calls[i].priced =>
                /\ i = Len(calls)
                /\ final_ticker = calls[i].t
                /\ info # None
                /\ pc \notin {"start", "loop"}
        /\ final_ticker # <<>> =>
            /\ calls # <<>>
            /\ calls[Len(calls)].priced
            /\ final_ticker = calls[Len(calls)].t

\* C2 witness: .TW returned a record without a price key, .TWO was queried
\* next and accepted
C2_Witness ==
    /\ AllDigit
    /\ Returned
    /\ Len(calls) = 2
    /\ calls[1].out = "returned"
    /\ ~calls[1].priced
    /\ calls[2].priced
    /\ final_ticker = raw_ticker \o <<".", "T", "W", "O">>

\* the query of the first candidate raised and the second returned a record
\* with a price key
FirstRaisedSecondPriced ==
    /\ AllDigit
    /\ Returned
    /\ Len(calls) = 2
    /\ calls[1].out = "info_raised"
    /\ calls[2].out = "returned"
    /\ calls[2].priced

\* C3 as stated: when the query for the first candidate (.TW) raises and the
\* query for the second (.TWO) returns a record with a usable price,
\* get_stock_data_sync returns a snapshot, not NotFound, built from the second
\* record, whose symbol is the second candidate's symbol.
C3_AsStated ==
    FirstRaisedSecondPriced =>
        /\ data # None
        /\ data.symbol = Str(calls[2].t)

\* C4 as stated: get_stock_data_sync returns None only after every candidate
\* has been queried; no error raised by the external source for a candidate,
\* at any step of handling it, ends the resolution while a later candidate is
\* untried.
C4_NoneOnlyAfterAllCandidates ==
    /\ (Returned /\ data = None) => Len(calls) = Len(search_tickers)
    /\ \A i \in 1..Len(calls) :
          (Returned /\ calls[i].out \in {"ticker_raised", "info_raised"}
             /\ i < Len(search_tickers)) => Len(calls) > i

\* C5 as stated: the endpoint answers 200 only when the resolver returned a
\* snapshot whose currentPrice is > 0; whenever the resolver returns NotFound
\* or the snapshot's currentPrice is not > 0 (zero or absent), the request
\* fails with 404 and no valuation is computed or returned.
C5_PositivePriceOr404 ==
    pc = "done" =>
        LET usable == IF data = None THEN FALSE
                      ELSE data.current_price.k = "num" /\ data.current_price.n > 0
        IN  /\ response.status = 200 => usable
            /\ ~usable => (response.status = 404 /\ ~locals.computed)

-----------------------------------------------------------------------------
(* Claim about the executor, checked under SpecRequests *)

\* C9: at most 5 external queries execute at a time; a request goes on to the
\* valuation only after its own dispatched query has completed; and when the
\* external call of one request hangs, every other submitted request still
\* completes.
C9_BoundedPoolNoBlocking ==
    /\ [](Cardinality({r \in Requests : phase[r] = "running"}) <= 5)
    /\ [][\A r \in Requests :
            (phase[r] # "responded" /\ phase'[r] = "responded") => phase[r] = "finished"]_vars
    /\ \A r \in Requests :
          (Cardinality(hang) <= 1 /\ r \notin hang /\ phase[r] = "queued")
             ~> (phase[r] = "responded")

\* C9 witness: five queries execute, one of them hangs, and a request
\* submitted after the hanging one has already been answered
C9_Witness ==
    /\ Cardinality({r \in Requests : phase[r] = "running"}) = 5
    /\ \E h \in hang :
          /\ phase[h] = "running"
          /\ \E r \in Requests : r > h /\ phase[r] = "responded"

=============================================================================
